---- MODULE Spec2Model ----
(***************************************************************************)
(* Round-robin reverse proxy (extndr/loadBalancer).                        *)
(*                                                                         *)
(* The repository holds the balancer twice: package lb (New,               *)
(* getNextBackend, ServeHTTP in src/internal/config/config.go) and the     *)
(* older single-file program (NewLB, getNextBackend, ServeHTTP in          *)
(* src/cmd/app/main.go).  The two ServeHTTP and getNextBackend bodies are  *)
(* identical; the constructors differ (NewLB has no scheme check), so both *)
(* constructors are actions of the model.                                  *)
(*                                                                         *)
(* Strings are sequences of one-character strings, so that url.Parse is    *)
(* computed from the characters.                                           *)
(***************************************************************************)
EXTENDS Integers, Sequences, FiniteSets, TLC

(***************************************************************************)
(* Bounds of the model.                                                    *)
(***************************************************************************)
\* number of ServeHTTP calls an execution makes
MaxReq == 3

\* longest backend list handed to a constructor (SpecNew)
MaxBackends == 3

\* width of the selection counter in the model (uint64 in the code)
CounterBits == 4

(***************************************************************************)
(* Characters and the backend strings the constructors are tried on.       *)
(***************************************************************************)
Lower == [c \in {"H", "T", "P"} |-> CASE c = "H" -> "h" [] c = "T" -> "t" [] c = "P" -> "p"]

Letters == {"a", "b", "f", "h", "l", "n", "o", "p", "r", "s", "t", "u", "x", "H", "T", "P"}

Digits == {"0", "1", "8"}

HttpA == <<"h", "t", "t", "p", ":", "/", "/", "a">>

HttpsB == <<"h", "t", "t", "p", "s", ":", "/", "/", "b">>

HttpUpper == <<"H", "T", "T", "P", ":", "/", "/", "x">>

FtpX == <<"f", "t", "p", ":", "/", "/", "x">>

NotAUrl == <<"n", "o", "t", " ", "a", " ", "u", "r", "l">>

NoScheme == <<":", "/", "/", "a">>

HostPort == <<"a", ":", "8", "0">>

HostSpace == <<"h", "t", "t", "p", ":", "/", "/", "a", " ", "b">>

BackendStrings == {HttpA, HttpsB, HttpUpper, FtpX, NotAUrl, NoScheme, HostPort, HostSpace}

(***************************************************************************)
(* strings helpers (Go strings package, as used by net/url)                *)
(***************************************************************************)
ToLower(s) == [i \in 1..Len(s) |-> IF s[i] \in DOMAIN Lower THEN Lower[s[i]] ELSE s[i]]

HasPrefix(s, p) == Len(s) >= Len(p) /\ SubSeq(s, 1, Len(p)) = p

\* 1-based position of the first c in s, 0 when there is none (strings.Index + 1)
Index(s, c) == IF \E i \in 1..Len(s) : s[i] = c
               THEN CHOOSE i \in 1..Len(s) : s[i] = c /\ \A j \in 1..(i - 1) : s[j] # c
               ELSE 0

Contains(s, c) == Index(s, c) # 0

\* the part of s before the first c (strings.Cut's first result)
CutBefore(s, c) == IF Contains(s, c) THEN SubSeq(s, 1, Index(s, c) - 1) ELSE s

\* the part of s from position i on (s[i-1:] in Go)
From(s, i) == SubSeq(s, i, Len(s))

(***************************************************************************)
(* url.Parse, as far as the constructors depend on it: the scheme split    *)
(* (getScheme), the lower-casing of the scheme, the opaque / relative /    *)
(* authority branches and the host check.  The backend strings above hold  *)
(* no '#', '?', '@', '%', '[' or control byte, so the fragment, query,     *)
(* userinfo, escape and IPv6 branches of the parser are not modelled.      *)
(***************************************************************************)
NoURL == [Scheme |-> <<>>, Opaque |-> <<>>, Host |-> <<>>, Path |-> <<>>]

RECURSIVE getSchemeAt(_, _)
getSchemeAt(rawURL, i) ==
    IF i > Len(rawURL)
    THEN [scheme |-> <<>>, rest |-> rawURL, err |-> FALSE]
    ELSE LET c == rawURL[i] IN
         CASE c \in Letters -> getSchemeAt(rawURL, i + 1)
           [] c \in Digits \cup {"+", "-", "."} ->
                IF i = 1 THEN [scheme |-> <<>>, rest |-> rawURL, err |-> FALSE]
                         ELSE getSchemeAt(rawURL, i + 1)
           [] c = ":" ->
                IF i = 1 THEN [scheme |-> <<>>, rest |-> <<>>, err |-> TRUE]
                         ELSE [scheme |-> SubSeq(rawURL, 1, i - 1),
                               rest |-> From(rawURL, i + 1), err |-> FALSE]
           [] OTHER -> [scheme |-> <<>>, rest |-> rawURL, err |-> FALSE]

getScheme(rawURL) == getSchemeAt(rawURL, 1)

\* parseAuthority / parseHost: a host may not hold a space
validHost(host) == ~Contains(host, " ")

Parse(rawURL) ==
    LET g == getScheme(rawURL)
        scheme == ToLower(g.scheme)
        rest == g.rest
    IN  IF g.err THEN [err |-> TRUE, url |-> NoURL]
        ELSE IF ~HasPrefix(rest, <<"/">>) /\ scheme # <<>>
        THEN [err |-> FALSE, url |-> [NoURL EXCEPT !.Scheme = scheme, !.Opaque = rest]]
        ELSE IF ~HasPrefix(rest, <<"/">>) /\ Contains(CutBefore(rest, "/"), ":")
        THEN [err |-> TRUE, url |-> NoURL]
        ELSE IF HasPrefix(rest, <<"/", "/">>)
        THEN LET auth == From(rest, 3)
                 host == CutBefore(auth, "/")
                 path == From(auth, Len(host) + 1)
             IN  IF validHost(host)
                 THEN [err |-> FALSE,
                       url |-> [NoURL EXCEPT !.Scheme = scheme, !.Host = host, !.Path = path]]
                 ELSE [err |-> TRUE, url |-> NoURL]
        ELSE [err |-> FALSE, url |-> [NoURL EXCEPT !.Scheme = scheme, !.Path = rest]]

(***************************************************************************)
(* Inputs of the model.                                                    *)
(***************************************************************************)
RECURSIVE SeqsUpTo(_, _)
SeqsUpTo(S, n) ==
    IF n = 0 THEN {<<>>}
    ELSE LET shorter == SeqsUpTo(S, n - 1)
         IN  shorter \cup {Append(q, x) : q \in {t \in shorter : Len(t) = n - 1}, x \in S}

\* every backend list a constructor is tried on (SpecNew)
ArgLists == SeqsUpTo(BackendStrings, MaxBackends)

\* the backend lists the forwarding engine is run with (Spec)
Configs == {<<HttpA, HttpsB>>, <<HttpsB, HttpA, HttpUpper>>, <<HttpA>>}

Reqs == 1..MaxReq

(***************************************************************************)
(* Upstream responses (http.Response: StatusCode, Header, Body).  Header   *)
(* is map[string][]string: every key maps to the sequence of its values.   *)
(***************************************************************************)
HeaderKeys == {"X-Custom", "Location"}

NoHeader == [k \in HeaderKeys |-> <<>>]

NoResp == [StatusCode |-> 0, Header |-> NoHeader, Body |-> <<>>]

Created201 == [StatusCode |-> 201,
               Header |-> [NoHeader EXCEPT !["X-Custom"] = <<"a", "b">>],
               Body |-> <<7>>]

Upstream504 == [StatusCode |-> 504, Header |-> NoHeader, Body |-> <<>>]

\* the upstream's own 500
Upstream500 == [StatusCode |-> 500, Header |-> NoHeader, Body |-> <<>>]

Redirect302 == [StatusCode |-> 302,
                Header |-> [NoHeader EXCEPT !["Location"] = <<"/next">>],
                Body |-> <<>>]

\* the responses client.Do can return: a 3xx with a Location is followed
\* by the client (no CheckRedirect is set), so it is never returned
FinalResponses == {Created201, Upstream504, Upstream500}

StatusInternalServerError == 500

StatusBadGateway == 502

StatusGatewayTimeout == 504

\* the errors of a ServeHTTP call
Errors == {"nil", "NewRequest", "DeadlineExceeded", "Canceled", "Other"}

VARIABLES
    args,        \* the backend strings handed to the constructor
    lbState,     \* "none" before construction, then "ok" or "error"
    backends,    \* LoadBalancer.backends
    counter,     \* LoadBalancer.counter
    pc,          \* per call: where ServeHTTP stands
    idx,         \* per call: idx of getNextBackend
    target,      \* per call: position in backends of the selected backend, 0 before
    calls,       \* per call: the backends client.Do was invoked for, in order
    redirected,  \* per call: client.Do followed a redirect of the upstream
    err,         \* per call: err of NewRequestWithContext / client.Do
    resp,        \* per call: resp of client.Do
    status,      \* per call: status written to the ResponseWriter, 0 before
    writes,      \* per call: number of status writes
    wHeader,     \* per call: w.Header()
    out,         \* per call: body bytes written to the ResponseWriter
    ctx,         \* per call: the context of context.WithTimeout: "none", "active", "released"
    serial,      \* history: no call has started while another was in flight
    mainpc,      \* the main goroutine: "start", "select", "shutdown", "exit"
    servepc,     \* the serving goroutine: "none", "spawned", "serving", "returned", "blocked"
    listener,    \* the listening socket: "none", "listening", "failed", "closed"
    errChan,     \* number of errors buffered in errChan
    sigs,        \* a signal is buffered in the stop channel
    exitCode,    \* exit status of the process, -1 while it runs
    drainSet     \* history: the calls in flight when srv.Shutdown was called

vars == <<args, lbState, backends, counter, pc, idx, target, calls, redirected,
          err, resp, status, writes, wHeader, out, ctx, serial,
          mainpc, servepc, listener, errChan, sigs, exitCode, drainSet>>

lbVars == <<args, lbState, backends, counter>>

reqVars == <<pc, idx, target, calls, redirected, err, resp, status, writes, wHeader, out,
            ctx, serial>>

hostVars == <<mainpc, servepc, listener, errChan, sigs, exitCode, drainSet>>

(***************************************************************************)
(* Construction                                                            *)
(***************************************************************************)
\* the loop of New over the backend strings: parse, check the scheme, append
RECURSIVE parseBackends(_, _)
parseBackends(bs, parsedURLs) ==
    IF bs = <<>> THEN [err |-> FALSE, backends |-> parsedURLs]
    ELSE LET p == Parse(Head(bs)) IN
         IF p.err THEN [err |-> TRUE, backends |-> <<>>]
         ELSE IF p.url.Scheme # <<"h", "t", "t", "p">> /\ p.url.Scheme # <<"h", "t", "t", "p", "s">>
         THEN [err |-> TRUE, backends |-> <<>>]
         ELSE parseBackends(Tail(bs), Append(parsedURLs, p.url))

\* New with the length check off by one
NewResult_min1(bs) ==
    IF Len(bs) < 1 THEN [err |-> TRUE, backends |-> <<>>]
    ELSE parseBackends(bs, <<>>)

\* New collecting the parsed URLs in reverse
NewResult_reversed(bs) ==
    IF Len(bs) < 2 THEN [err |-> TRUE, backends |-> <<>>]
    ELSE LET res == parseBackends(bs, <<>>)
         IN  [res EXCEPT !.backends =
                 [i \in 1..Len(res.backends) |-> res.backends[Len(res.backends) + 1 - i]]]

\* lb.New: its error and the backends of the balancer it returns
NewResult(bs) ==
    IF Len(bs) < 2 THEN [err |-> TRUE, backends |-> <<>>]
    ELSE parseBackends(bs, <<>>)

\* the loop of NewLB over the backend strings: parse, append (no scheme check)
RECURSIVE parseBackendsLB(_, _)
parseBackendsLB(bs, parsedURLs) ==
    IF bs = <<>> THEN [err |-> FALSE, backends |-> parsedURLs]
    ELSE LET p == Parse(Head(bs)) IN
         IF p.err THEN [err |-> TRUE, backends |-> <<>>]
         ELSE parseBackendsLB(Tail(bs), Append(parsedURLs, p.url))

\* main.NewLB: its error and the backends of the balancer it returns
NewLBResult(bs) ==
    IF Len(bs) < 2 THEN [err |-> TRUE, backends |-> <<>>]
    ELSE parseBackendsLB(bs, <<>>)

Construct(res) ==
    /\ lbState = "none"
    /\ lbState' = IF res.err THEN "error" ELSE "ok"
    /\ backends' = res.backends
    /\ counter' = 0
    /\ UNCHANGED <<args, reqVars, hostVars>>

New == Construct(NewResult(args))

NewLB == Construct(NewLBResult(args))

(***************************************************************************)
(* Selection                                                               *)
(***************************************************************************)
\* atomic.AddUint64(&counter, delta): the new value, in the counter's width
AtomicAddUint64(c, delta) == (c + delta) % (2 ^ CounterBits)

\* idx taken as the new value of the counter, the "- 1" forgotten
PrevIndex_noSub(new) == new

\* idx := atomic.AddUint64(&lb.counter, 1) - 1, in the counter's width
PrevIndex(new) == (new + (2 ^ CounterBits) - 1) % (2 ^ CounterBits)

\* lb.backends[idx % uint64(len(lb.backends))], as a position 1..n
BackendIndex(i, n) == (i % n) + 1

InFlight(r) == pc[r] \notin {"idle", "done"}

\* the exit status main ends with: log.Fatal on an error, plain return else
ExitCode(failed) == IF failed THEN 1 ELSE 0

\* the process has not exited
Alive == exitCode = -1

\* the server of http.Server.ListenAndServe accepts connections
Accepting == Alive /\ listener = "listening"

\* getNextBackend with a plain read followed by a plain write: the value read
\* may be the one a call still in flight has read
getNextBackend_racy(r) ==
    /\ lbState = "ok"
    /\ Accepting
    /\ pc[r] = "idle"
    /\ Alive
    /\ \A q \in Reqs : q < r => pc[q] # "idle"
    /\ \E stale \in {counter} \cup {idx[q] : q \in {x \in Reqs : InFlight(x)}} :
        /\ counter' = AtomicAddUint64(stale, 1)
        /\ idx' = [idx EXCEPT ![r] = stale]
        /\ target' = [target EXCEPT ![r] = BackendIndex(stale, Len(backends))]
    /\ pc' = [pc EXCEPT ![r] = "selected"]
    /\ ctx' = [ctx EXCEPT ![r] = "active"]
    /\ serial' = (serial /\ \A q \in Reqs : ~InFlight(q))
    /\ UNCHANGED <<hostVars, args, lbState, backends, calls, redirected, err, resp,
                   status, writes, wHeader, out>>

\* selection under a lock that is held until client.Do has returned
getNextBackend_locked(r) ==
    /\ lbState = "ok"
    /\ Accepting
    /\ pc[r] = "idle"
    /\ \A q \in Reqs : pc[q] \notin {"selected", "do"}
    /\ \A q \in Reqs : q < r => pc[q] # "idle"
    /\ LET new == AtomicAddUint64(counter, 1) IN
        /\ counter' = new
        /\ idx' = [idx EXCEPT ![r] = PrevIndex(new)]
        /\ target' = [target EXCEPT ![r] = BackendIndex(PrevIndex(new), Len(backends))]
    /\ pc' = [pc EXCEPT ![r] = "selected"]
    /\ ctx' = [ctx EXCEPT ![r] = "active"]
    /\ serial' = (serial /\ \A q \in Reqs : ~InFlight(q))
    /\ UNCHANGED <<hostVars, args, lbState, backends, calls, redirected, err, resp,
                   status, writes, wHeader, out>>

\* a request is accepted by the server and ServeHTTP is entered:
\* target := lb.getNextBackend(); ctx, cancel := context.WithTimeout(...).
\* Calls are numbered in the order they arrive.
getNextBackend(r) ==
    /\ lbState = "ok"
    /\ Accepting
    /\ pc[r] = "idle"
    /\ Alive
    /\ \A q \in Reqs : q < r => pc[q] # "idle"
    /\ LET new == AtomicAddUint64(counter, 1) IN
        /\ counter' = new
        /\ idx' = [idx EXCEPT ![r] = PrevIndex(new)]
        /\ target' = [target EXCEPT ![r] = BackendIndex(PrevIndex(new), Len(backends))]
    /\ pc' = [pc EXCEPT ![r] = "selected"]
    /\ ctx' = [ctx EXCEPT ![r] = "active"]
    /\ serial' = (serial /\ \A q \in Reqs : ~InFlight(q))
    /\ UNCHANGED <<hostVars, args, lbState, backends, calls, redirected, err, resp,
                   status, writes, wHeader, out>>

(***************************************************************************)
(* Forwarding                                                              *)
(***************************************************************************)
\* http.Error(w, msg, code) and w.WriteHeader(code): one status write
WriteStatus(r, code) ==
    /\ status' = [status EXCEPT ![r] = code]
    /\ writes' = [writes EXCEPT ![r] = @ + 1]

\* the 500 branch returning before cancel is deferred
NewRequestFails_leak(r) ==
    /\ pc[r] = "selected"
    /\ Alive
    /\ err' = [err EXCEPT ![r] = "NewRequest"]
    /\ WriteStatus(r, StatusInternalServerError)
    /\ pc' = [pc EXCEPT ![r] = "done"]
    /\ UNCHANGED <<hostVars, lbVars, ctx, idx, target, calls, redirected, resp, wHeader, out, serial>>

\* the 500 branch without its return: the handler goes on to client.Do
NewRequestFails_noReturn(r) ==
    /\ pc[r] = "selected"
    /\ Alive
    /\ err' = [err EXCEPT ![r] = "NewRequest"]
    /\ WriteStatus(r, StatusInternalServerError)
    /\ pc' = [pc EXCEPT ![r] = "do"]
    /\ UNCHANGED <<hostVars, lbVars, ctx, idx, target, calls, redirected, resp, wHeader, out, serial>>

\* http.NewRequestWithContext rejects the method or the URL: 500 and return
NewRequestFails(r) ==
    /\ pc[r] = "selected"
    /\ Alive
    /\ err' = [err EXCEPT ![r] = "NewRequest"]
    /\ WriteStatus(r, StatusInternalServerError)
    /\ pc' = [pc EXCEPT ![r] = "done"]
    /\ ctx' = [ctx EXCEPT ![r] = "released"]
    /\ UNCHANGED <<hostVars, lbVars, idx, target, calls, redirected, resp, wHeader, out, serial>>

\* the outbound request is built and lb.client.Do(req) is issued
DoStart(r) ==
    /\ pc[r] = "selected"
    /\ Alive
    /\ calls' = [calls EXCEPT ![r] = Append(@, target[r])]
    /\ pc' = [pc EXCEPT ![r] = "do"]
    /\ UNCHANGED <<hostVars, lbVars, ctx, idx, target, redirected, err, resp, status, writes, wHeader,
                   out, serial>>

\* inside client.Do: the upstream answers 3xx with a Location and the client,
\* which has no CheckRedirect, follows it
DoRedirect(r) ==
    /\ pc[r] = "do"
    /\ Alive
    /\ ~redirected[r]
    /\ redirected' = [redirected EXCEPT ![r] = TRUE]
    /\ UNCHANGED <<hostVars, lbVars, ctx, pc, idx, target, calls, err, resp, status, writes, wHeader,
                   out, serial>>

\* the error branch with err == context.DeadlineExceeded in place of
\* errors.Is: client.Do wraps its error, so the comparison never holds
StatusForError_eq(e) == StatusBadGateway

\* the error branch answering 504 to every error
StatusForError_all504(e) == StatusGatewayTimeout

\* the status of the error branch of ServeHTTP
StatusForError(e) ==
    IF e = "DeadlineExceeded" THEN StatusGatewayTimeout ELSE StatusBadGateway

\* the error branch trying the next backend once before it gives up
DoFail_retry(r, e) ==
    /\ pc[r] = "do"
    /\ Alive
    /\ IF Len(calls[r]) < 2
       THEN /\ calls' = [calls EXCEPT ![r] = Append(@, BackendIndex(target[r], Len(backends)))]
            /\ UNCHANGED <<pc, err, status, writes, ctx>>
       ELSE /\ err' = [err EXCEPT ![r] = e]
            /\ status' = [status EXCEPT ![r] = StatusBadGateway]
            /\ writes' = [writes EXCEPT ![r] = @ + 1]
            /\ pc' = [pc EXCEPT ![r] = "done"]
            /\ ctx' = [ctx EXCEPT ![r] = "released"]
            /\ UNCHANGED calls
    /\ UNCHANGED <<hostVars, lbVars, idx, target, redirected, resp, wHeader, out, serial>>

\* the error branch moving the cursor past the backend that failed
DoFail_skip(r, e) ==
    /\ pc[r] = "do"
    /\ Alive
    /\ err' = [err EXCEPT ![r] = e]
    /\ status' = [status EXCEPT ![r] = StatusBadGateway]
    /\ writes' = [writes EXCEPT ![r] = @ + 1]
    /\ pc' = [pc EXCEPT ![r] = "done"]
    /\ ctx' = [ctx EXCEPT ![r] = "released"]
    /\ counter' = AtomicAddUint64(counter, 1)
    /\ UNCHANGED <<hostVars, args, lbState, backends, idx, target, calls, redirected, resp,
                   wHeader, out, serial>>

\* the error branch ending the process with log.Fatal
DoFail_fatal(r, e) ==
    /\ pc[r] = "do"
    /\ Alive
    /\ err' = [err EXCEPT ![r] = e]
    /\ WriteStatus(r, StatusForError(e))
    /\ pc' = [pc EXCEPT ![r] = "done"]
    /\ ctx' = [ctx EXCEPT ![r] = "released"]
    /\ mainpc' = "exit"
    /\ exitCode' = ExitCode(TRUE)
    /\ UNCHANGED <<servepc, listener, errChan, sigs, drainSet, lbVars, idx, target, calls,
                   redirected, resp, wHeader, out, serial>>

\* client.Do returned err # nil: classify, write the status, return
DoFail(r, e) ==
    /\ pc[r] = "do"
    /\ Alive
    /\ err' = [err EXCEPT ![r] = e]
    /\ WriteStatus(r, StatusForError(e))
    /\ pc' = [pc EXCEPT ![r] = "done"]
    /\ ctx' = [ctx EXCEPT ![r] = "released"]
    /\ UNCHANGED <<hostVars, lbVars, idx, target, calls, redirected, resp, wHeader, out, serial>>

\* the deadline of context.WithTimeout(r.Context(), lb.timeout) passes first
DoTimeout(r) == DoFail(r, "DeadlineExceeded")

\* r.Context() ends first: the client went away
DoCanceled(r) == DoFail(r, "Canceled")

\* DNS failure, connection refused, reset, too many redirects
DoError(r) == DoFail(r, "Other")

\* w.Header().Add(k, vv)
AddHeader(h, k, vv) == [h EXCEPT ![k] = Append(@, vv)]

\* for _, vv := range v { w.Header().Add(k, vv) }
RECURSIVE AddValues(_, _, _)
AddValues(h, k, v) ==
    IF v = <<>> THEN h ELSE AddValues(AddHeader(h, k, Head(v)), k, Tail(v))

\* for k, v := range resp.Header { ... }: the keys in any order
RECURSIVE CopyHeader(_, _, _)
CopyHeader(h, from, keys) ==
    IF keys = {} THEN h
    ELSE LET k == CHOOSE x \in keys : TRUE
         IN  CopyHeader(AddValues(h, k, from[k]), from, keys \ {k})

\* client.Do returned a response: copy the headers, write the status
DoRespond(r, rs) ==
    /\ pc[r] = "do"
    /\ Alive
    /\ resp' = [resp EXCEPT ![r] = rs]
    /\ wHeader' = [wHeader EXCEPT ![r] = CopyHeader(@, rs.Header, HeaderKeys)]
    /\ WriteStatus(r, rs.StatusCode)
    /\ pc' = [pc EXCEPT ![r] = "copy"]
    /\ UNCHANGED <<hostVars, lbVars, ctx, idx, target, calls, redirected, err, out, serial>>

\* io.Copy(w, resp.Body): one more chunk of the body reaches the caller
CopyChunk(r) ==
    /\ pc[r] = "copy"
    /\ Alive
    /\ Len(out[r]) < Len(resp[r].Body)
    /\ out' = [out EXCEPT ![r] = Append(@, resp[r].Body[Len(@) + 1])]
    /\ UNCHANGED <<hostVars, lbVars, ctx, pc, idx, target, calls, redirected, err, resp, status, writes,
                   wHeader, serial>>

\* io.Copy reads EOF: the whole body was relayed, ServeHTTP returns
CopyEOF(r) ==
    /\ pc[r] = "copy"
    /\ Alive
    /\ Len(out[r]) = Len(resp[r].Body)
    /\ pc' = [pc EXCEPT ![r] = "done"]
    /\ ctx' = [ctx EXCEPT ![r] = "released"]
    /\ UNCHANGED <<hostVars, lbVars, idx, target, calls, redirected, err, resp, status, writes,
                   wHeader, out, serial>>

\* io.Copy stops on an error (the deadline passes or r.Context() ends while
\* the body is read, the upstream resets, the write to the caller fails);
\* its result is dropped and ServeHTTP returns
CopyAbort(r) ==
    /\ pc[r] = "copy"
    /\ Alive
    /\ Len(out[r]) < Len(resp[r].Body)
    /\ pc' = [pc EXCEPT ![r] = "done"]
    /\ ctx' = [ctx EXCEPT ![r] = "released"]
    /\ UNCHANGED <<hostVars, lbVars, idx, target, calls, redirected, err, resp, status, writes,
                   wHeader, out, serial>>

ServeHTTP(r) ==
    \/ getNextBackend(r)
    \/ NewRequestFails(r)
    \/ DoStart(r)
    \/ DoRedirect(r)
    \/ DoTimeout(r)
    \/ DoCanceled(r)
    \/ DoError(r)
    \/ \E rs \in FinalResponses : DoRespond(r, rs)
    \/ CopyChunk(r)
    \/ CopyEOF(r)
    \/ CopyAbort(r)

(***************************************************************************)
(* Service Host: main, server.Run (and runServer of the older program)     *)
(***************************************************************************)
\* errChan := make(chan error, 1)
ErrChanCap == 1

\* main: the constructor returned an error: log.Fatal before server.Run
ConstructFatal ==
    /\ Alive
    /\ mainpc = "start"
    /\ lbState = "error"
    /\ mainpc' = "exit"
    /\ exitCode' = ExitCode(TRUE)
    /\ UNCHANGED <<lbVars, reqVars, servepc, listener, errChan, sigs, drainSet>>

\* main calls server.Run with the balancer it was given
RunStart_anyway ==
    /\ Alive
    /\ mainpc = "start"
    /\ lbState # "none"
    /\ mainpc' = "select"
    /\ servepc' = "spawned"
    /\ UNCHANGED <<lbVars, reqVars, listener, errChan, sigs, exitCode, drainSet>>

\* main calls server.Run: the serving goroutine is started, signal.Notify
\* is set up, and Run waits in its select
RunStart ==
    /\ Alive
    /\ mainpc = "start"
    /\ lbState = "ok"
    /\ mainpc' = "select"
    /\ servepc' = "spawned"
    /\ UNCHANGED <<lbVars, reqVars, listener, errChan, sigs, exitCode, drainSet>>

\* the serving goroutine: srv.ListenAndServe binds and accepts
ListenOK ==
    /\ Alive
    /\ servepc = "spawned"
    /\ listener = "none"
    /\ listener' = "listening"
    /\ servepc' = "serving"
    /\ UNCHANGED <<lbVars, reqVars, mainpc, errChan, sigs, exitCode, drainSet>>

\* the send on a channel without a buffer: it waits for Run to receive
ListenFails_unbuffered ==
    /\ Alive
    /\ servepc \in {"spawned", "serving"}
    /\ listener \in {"none", "listening"}
    /\ listener' = "failed"
    /\ servepc' = "blocked"
    /\ UNCHANGED <<lbVars, reqVars, mainpc, errChan, sigs, exitCode, drainSet>>

\* Run's serving goroutine: ListenAndServe returns an error other than
\* ErrServerClosed (it cannot bind, or Accept fails): errChan <- err
ListenFails ==
    /\ Alive
    /\ servepc \in {"spawned", "serving"}
    /\ listener \in {"none", "listening"}
    /\ listener' = "failed"
    /\ IF errChan < ErrChanCap
       THEN errChan' = errChan + 1 /\ servepc' = "returned"
       ELSE errChan' = errChan /\ servepc' = "blocked"
    /\ UNCHANGED <<lbVars, reqVars, mainpc, sigs, exitCode, drainSet>>

\* runServer's serving goroutine: the same failure ends in log.Fatalf
ListenFailsFatal ==
    /\ Alive
    /\ servepc \in {"spawned", "serving"}
    /\ listener \in {"none", "listening"}
    /\ listener' = "failed"
    /\ servepc' = "returned"
    /\ mainpc' = "exit"
    /\ exitCode' = ExitCode(TRUE)
    /\ UNCHANGED <<lbVars, reqVars, errChan, sigs, drainSet>>

\* SIGINT or SIGTERM is delivered to the stop channel while Run waits (a
\* later signal stays in the channel unread)
Signal ==
    /\ Alive
    /\ mainpc = "select"
    /\ ~sigs
    /\ sigs' = TRUE
    /\ UNCHANGED <<lbVars, reqVars, mainpc, servepc, listener, errChan, exitCode, drainSet>>

\* case <-stop taken, but the listener left open
SelectStop_noClose ==
    /\ Alive
    /\ mainpc = "select"
    /\ sigs
    /\ sigs' = FALSE
    /\ mainpc' = "shutdown"
    /\ drainSet' = {r \in Reqs : InFlight(r)}
    /\ UNCHANGED <<lbVars, reqVars, servepc, listener, errChan, exitCode>>

\* case <-stop: Run calls srv.Shutdown(ctx) with the 5 s grace context.
\* Shutdown closes the listener at once; ListenAndServe returns
\* ErrServerClosed, which the serving goroutine does not report.
SelectStop ==
    /\ Alive
    /\ mainpc = "select"
    /\ sigs
    /\ sigs' = FALSE
    /\ mainpc' = "shutdown"
    /\ listener' = IF listener = "failed" THEN "failed" ELSE "closed"
    /\ servepc' = IF servepc \in {"spawned", "serving"} THEN "returned" ELSE servepc
    /\ drainSet' = {r \in Reqs : InFlight(r)}
    /\ UNCHANGED <<lbVars, reqVars, errChan, exitCode>>

\* case err := <-errChan: Run returns the error, main ends in log.Fatal
SelectErr ==
    /\ Alive
    /\ mainpc = "select"
    /\ errChan > 0 \/ servepc = "blocked"
    /\ IF errChan > 0
       THEN errChan' = errChan - 1 /\ servepc' = servepc
       ELSE errChan' = errChan /\ servepc' = "returned"
    /\ mainpc' = "exit"
    /\ exitCode' = ExitCode(TRUE)
    /\ UNCHANGED <<lbVars, reqVars, listener, sigs, drainSet>>

\* srv.Shutdown returning an error although every call has finished
ShutdownDone_err ==
    /\ Alive
    /\ mainpc = "shutdown"
    /\ \A r \in Reqs : ~InFlight(r)
    /\ mainpc' = "exit"
    /\ exitCode' = ExitCode(TRUE)
    /\ UNCHANGED <<lbVars, reqVars, servepc, listener, errChan, sigs, drainSet>>

\* srv.Shutdown finds no call in flight and returns nil: Run returns nil
\* and main returns
ShutdownDone ==
    /\ Alive
    /\ mainpc = "shutdown"
    /\ \A r \in Reqs : ~InFlight(r)
    /\ mainpc' = "exit"
    /\ exitCode' = ExitCode(FALSE)
    /\ UNCHANGED <<lbVars, reqVars, servepc, listener, errChan, sigs, drainSet>>

\* the grace context expires with a call still in flight: srv.Shutdown
\* returns ctx.Err(), Run returns "shutdown error", main ends in log.Fatal;
\* the calls still in flight end with the process
ShutdownExpired ==
    /\ Alive
    /\ mainpc = "shutdown"
    /\ \E r \in Reqs : InFlight(r)
    /\ mainpc' = "exit"
    /\ exitCode' = ExitCode(TRUE)
    /\ UNCHANGED <<lbVars, reqVars, servepc, listener, errChan, sigs, drainSet>>

(***************************************************************************)
(* Specifications                                                          *)
(***************************************************************************)
InitReqs ==
    /\ pc = [r \in Reqs |-> "idle"]
    /\ idx = [r \in Reqs |-> 0]
    /\ target = [r \in Reqs |-> 0]
    /\ calls = [r \in Reqs |-> <<>>]
    /\ redirected = [r \in Reqs |-> FALSE]
    /\ err = [r \in Reqs |-> "nil"]
    /\ resp = [r \in Reqs |-> NoResp]
    /\ status = [r \in Reqs |-> 0]
    /\ writes = [r \in Reqs |-> 0]
    /\ wHeader = [r \in Reqs |-> NoHeader]
    /\ out = [r \in Reqs |-> <<>>]
    /\ ctx = [r \in Reqs |-> "none"]
    /\ serial = TRUE

InitLB ==
    /\ lbState = "none"
    /\ backends = <<>>
    /\ counter = 0

InitHost ==
    /\ mainpc = "start"
    /\ servepc = "none"
    /\ listener = "none"
    /\ errChan = 0
    /\ sigs = FALSE
    /\ exitCode = -1
    /\ drainSet = {}

Init == args \in Configs /\ InitLB /\ InitReqs /\ InitHost

Next ==
    \/ New
    \/ NewLB
    \/ ConstructFatal
    \/ RunStart
    \/ ListenOK
    \/ \E r \in Reqs : getNextBackend(r)
    \/ \E r \in Reqs : NewRequestFails(r)
    \/ \E r \in Reqs : DoStart(r)
    \/ \E r \in Reqs : DoRedirect(r)
    \/ \E r \in Reqs : DoTimeout(r)
    \/ \E r \in Reqs : DoCanceled(r)
    \/ \E r \in Reqs : DoError(r)
    \/ \E r \in Reqs, rs \in FinalResponses : DoRespond(r, rs)
    \/ \E r \in Reqs : CopyChunk(r)
    \/ \E r \in Reqs : CopyEOF(r)
    \/ \E r \in Reqs : CopyAbort(r)

Spec == Init /\ [][Next]_vars

\* the constructors alone, on every backend list up to MaxBackends strings
InitNew == args \in ArgLists /\ InitLB /\ InitReqs /\ InitHost

NextNew == New \/ NewLB

SpecNew == InitNew /\ [][NextNew]_vars

\* the requests that arrive over the life of the host
HostMaxReq == 2

HostReqs == 1..HostMaxReq

\* the whole program: the calls, the signals and the listener's failures
NextHost ==
    \/ New
    \/ NewLB
    \/ ConstructFatal
    \/ RunStart
    \/ ListenOK
    \/ \E r \in HostReqs : getNextBackend(r)
    \/ \E r \in HostReqs : NewRequestFails(r)
    \/ \E r \in HostReqs : DoStart(r)
    \/ \E r \in HostReqs : DoRedirect(r)
    \/ \E r \in HostReqs : DoTimeout(r)
    \/ \E r \in HostReqs : DoCanceled(r)
    \/ \E r \in HostReqs : DoError(r)
    \/ \E r \in HostReqs, rs \in FinalResponses : DoRespond(r, rs)
    \/ \E r \in HostReqs : CopyChunk(r)
    \/ \E r \in HostReqs : CopyEOF(r)
    \/ \E r \in HostReqs : CopyAbort(r)
    \/ ListenFails
    \/ ListenFailsFatal
    \/ Signal
    \/ SelectStop
    \/ SelectErr
    \/ ShutdownDone
    \/ ShutdownExpired

\* the configurations the host is run with: one that constructs and one
\* that the constructor refuses
HostConfigs == {<<HttpA, HttpsB>>, <<HttpA>>}

InitHostSpec == args \in HostConfigs /\ InitLB /\ InitReqs /\ InitHost

SpecHost == InitHostSpec /\ [][NextHost]_vars

\* a balancer that has served for long: its counter is two short of the
\* top of its range, with N dividing 2^CounterBits and with N not dividing it
WrapStart == (2 ^ CounterBits) - 2

WrapConfigs == {<<HttpA, HttpsB>>, <<HttpsB, HttpA, HttpUpper>>}

InitWrap ==
    /\ args \in WrapConfigs
    /\ lbState = "ok"
    /\ backends = NewResult(args).backends
    /\ counter = WrapStart
    /\ InitReqs
    /\ mainpc = "select"
    /\ servepc = "serving"
    /\ listener = "listening"
    /\ errChan = 0
    /\ sigs = FALSE
    /\ exitCode = -1
    /\ drainSet = {}

NextWrap ==
    \/ \E r \in Reqs : getNextBackend(r)
    \/ \E r \in Reqs : NewRequestFails(r)
    \/ \E r \in Reqs : DoStart(r)
    \/ \E r \in Reqs : DoRedirect(r)
    \/ \E r \in Reqs : DoTimeout(r)
    \/ \E r \in Reqs : DoCanceled(r)
    \/ \E r \in Reqs : DoError(r)
    \/ \E r \in Reqs, rs \in FinalResponses : DoRespond(r, rs)
    \/ \E r \in Reqs : CopyChunk(r)
    \/ \E r \in Reqs : CopyEOF(r)
    \/ \E r \in Reqs : CopyAbort(r)

SpecWrap == InitWrap /\ [][NextWrap]_vars

\* what keeps a call moving: the handler's goroutine runs on, and the timer
\* of context.WithTimeout fires while client.Do or io.Copy still waits
Proceed(r) ==
    \/ NewRequestFails(r)
    \/ DoStart(r)
    \/ DoTimeout(r)
    \/ CopyChunk(r)
    \/ CopyEOF(r)
    \/ CopyAbort(r)

FairSpec == Init /\ [][Next]_vars /\ \A r \in Reqs : WF_vars(Proceed(r))

(***************************************************************************)
(* Properties                                                              *)
(***************************************************************************)
\* the backend strings of BackendStrings that are http(s) URLs
ValidBackendStrings == {HttpA, HttpsB, HttpUpper}

Started == {r \in Reqs : pc[r] # "idle"}

N == Len(backends)

\* url.Parse of each backend string, computed once
ParsedURL == [s \in BackendStrings |-> Parse(s)]

\* C1: in a run whose calls are made one after another, the call with
\* 0-based index c selects the backend configured at position c mod N, and
\* N consecutive calls visit the N backends once each, in configured order.
C1_SerialRoundRobin ==
    (lbState = "ok" /\ serial) =>
        /\ \A r \in Started : backends[target[r]] = ParsedURL[args[((r - 1) % N) + 1]].url
        /\ \A r \in Started : \A k \in 0..(N - 1) :
               (r + k) \in Started => target[r + k] = ((target[r] - 1 + k) % N) + 1

C1_Witness ==
    /\ serial
    /\ N = 2
    /\ \A r \in Reqs : pc[r] = "done"

\* C2: with calls in flight together, the calls that have selected hold
\* pairwise distinct cursor values, these values are exactly 0..K-1, and
\* when K is a multiple of N every backend was selected K/N times.
C2_ConcurrentFairness ==
    lbState = "ok" =>
        LET K == Cardinality(Started) IN
        /\ \A r, q \in Started : r # q => idx[r] # idx[q]
        /\ {idx[r] : r \in Started} = 0..(K - 1)
        /\ (K % N = 0) =>
               \A b \in 1..N : Cardinality({r \in Started : target[r] = b}) = K \div N

C2_Witness ==
    /\ N = 3
    /\ Cardinality(Started) = 3
    /\ \A r \in Started : pc[r] = "do"

\* C3: a constructor given no or one backend string fails and leaves no
\* balancer; given two or more http(s) URLs it succeeds.
C3_ConstructionArity ==
    lbState # "none" =>
        /\ Len(args) < 2 => (lbState = "error" /\ backends = <<>>)
        /\ (Len(args) >= 2 /\ \A i \in 1..Len(args) : args[i] \in ValidBackendStrings)
               => (lbState = "ok" /\ Len(backends) = Len(args))

C3_Witness ==
    /\ lbState = "error"
    /\ args = <<HttpA>>

\* C4: a constructor fails whenever one of its backend strings is not an
\* http(s) URL, whatever the other strings are.
C4_InvalidBackendRejected ==
    (lbState # "none" /\ \E i \in 1..Len(args) : args[i] \notin ValidBackendStrings)
        => (lbState = "error" /\ backends = <<>>)

\* C5: once constructed, the balancer's backends are the input strings
\* parsed, in input order, at least two, whatever calls have been served;
\* the cursor modulo N and every selection are positions of the list.
C5_BackendSetInvariant ==
    lbState = "ok" =>
        /\ N >= 2
        /\ N = Len(args)
        /\ \A i \in 1..N : backends[i] = ParsedURL[args[i]].url
        /\ BackendIndex(counter, N) \in 1..N
        /\ \A r \in Started : target[r] \in 1..N

C5_Witness ==
    /\ lbState = "ok"
    /\ args = <<HttpsB, HttpA, HttpUpper>>
    /\ \A r \in Reqs : pc[r] = "done"

\* C6: a call whose client.Do is waiting ends; when it ends because the
\* deadline passed, the caller got 504, written once, never 502 or 500.
C6_TimeoutClassification ==
    \A r \in Reqs :
        /\ (pc[r] = "do") ~> (pc[r] = "done")
        /\ [](err[r] = "DeadlineExceeded" =>
                 (pc[r] = "done" /\ status[r] = StatusGatewayTimeout /\ writes[r] = 1))

C6_Witness ==
    \E r \in Reqs : err[r] = "DeadlineExceeded" /\ pc[r] = "done"

\* C7: when client.Do fails for a reason other than the deadline, the
\* caller gets 502, never 504 or 500.
C7_UpstreamUnavailable ==
    \A r \in Reqs :
        err[r] \in {"Other", "Canceled"} =>
            (pc[r] = "done" /\ status[r] = StatusBadGateway /\ writes[r] = 1)

C7_Witness ==
    \E r \in Reqs : err[r] = "Other" /\ pc[r] = "done" /\ ~redirected[r]

\* the first response the upstream gave to a call
UpstreamResponded(r) == redirected[r] \/ resp[r] # NoResp

FirstResponse(r) == IF redirected[r] THEN Redirect302 ELSE resp[r]

\* C8: when the upstream responds, the finished call has given the caller
\* that response's status, all its header values and its whole body.
C8_PassthroughFidelity ==
    \A r \in Reqs :
        (pc[r] = "done" /\ UpstreamResponded(r)) =>
            /\ status[r] = FirstResponse(r).StatusCode
            /\ wHeader[r] = FirstResponse(r).Header
            /\ out[r] = FirstResponse(r).Body

C10_SelectionIgnoresOutcomes ==
    lbState = "ok" =>
        /\ counter = Cardinality(Started)
        /\ \A r \in Started : target[r] = BackendIndex(r - 1, N)
        /\ N = Len(args)

C10_Witness ==
    /\ N = 2
    /\ target[1] = 1 /\ status[1] = StatusBadGateway
    /\ target[3] = 1 /\ status[3] = StatusGatewayTimeout
    /\ target[2] = 2 /\ status[2] = 201

\* the Service Host's states
Running == Alive /\ mainpc = "select"
Draining == Alive /\ mainpc = "shutdown"
Stopped == mainpc = "exit"

\* the order of the positions of main
HostRank(p) ==
    CASE p = "start" -> 0
      [] p = "select" -> 1
      [] p = "shutdown" -> 2
      [] p = "exit" -> 3

\* C11: once Run has taken the signal the host is no longer Running and no
\* call that had not been accepted by then is accepted or forwarded; the
\* host moves from Running to Draining to Stopped and never back.
C11_DrainingRefusesNewWork ==
    [][ /\ HostRank(mainpc') >= HostRank(mainpc)
        /\ ~Running => \A r \in Reqs : pc[r] = "idle" => pc'[r] = "idle" ]_vars

C11_Witness ==
    /\ Stopped
    /\ exitCode = 0
    /\ drainSet # {}
    /\ \E r \in Reqs : pc[r] = "idle"

\* C12: a call in flight when srv.Shutdown is called keeps running while
\* the host drains, and when every such call has finished the host stops
\* with a nil error: exit status 0 means every call in flight at the
\* signal got its one response, and a drain that left no call in flight
\* ends with exit status 0.
C12_GracefulCompletion ==
    /\ Draining => \A r \in Reqs : InFlight(r) => ENABLED Proceed(r)
    /\ exitCode = 0 =>
          /\ Stopped
          /\ \A r \in Reqs : ~InFlight(r)
          /\ \A r \in drainSet : pc[r] = "done" /\ writes[r] = 1
    /\ (Stopped /\ listener = "closed" /\ \A r \in Reqs : ~InFlight(r)) => exitCode = 0

C12_Witness ==
    /\ exitCode = 0
    /\ \E r \in drainSet :
          /\ pc[r] = "done"
          /\ status[r] = Created201.StatusCode
          /\ out[r] = Created201.Body

\* C13: when the grace period ends with a call still in flight, the host
\* stops and the process exits cleanly: a host that stopped after a drain
\* with a call left in flight has exit status 0.
C13_GraceExpiryCleanExit ==
    \A r \in Reqs :
        (Stopped /\ listener = "closed" /\ r \in drainSet /\ InFlight(r)) => exitCode = 0

\* C14: a listener failure is reported without the serving goroutine ever
\* waiting on the send; when no signal is pending, Run's next step after the
\* failure is to return the error, and the process exits with a non-zero
\* status without a signal being needed.
C14_ListenerFailureSurfaced ==
    /\ [](servepc # "blocked")
    /\ []((listener = "failed" /\ Running /\ ~sigs) => ENABLED SelectErr)
    /\ [][ (listener = "failed" /\ ~sigs /\ mainpc = "select" /\ mainpc' # mainpc) =>
               (mainpc' = "exit" /\ exitCode' = 1) ]_vars
    /\ [][ (listener' = "failed" /\ mainpc' = "exit" /\ mainpc # "shutdown") =>
               exitCode' = 1 ]_vars

C14_Witness ==
    /\ listener = "failed"
    /\ Running
    /\ ~sigs
    /\ servepc = "returned"
    /\ errChan = 1

\* C15: the listener is started only for a constructed balancer; a
\* construction error is followed by the exit of the process with a
\* non-zero status, with no serving goroutine and no listening socket.
C15_StartupOrdering ==
    /\ (listener # "none" \/ servepc # "none" \/ mainpc \in {"select", "shutdown"}) =>
           lbState = "ok"
    /\ lbState = "error" =>
           /\ listener = "none"
           /\ servepc = "none"
           /\ Alive => ENABLED ConstructFatal
           /\ Stopped => exitCode = 1

C15_Witness ==
    /\ lbState = "error"
    /\ Stopped
    /\ exitCode = 1
    /\ listener = "none"

\* the call r ends in a failure of its own (500, 502 or 504)
FailureStep(r) == err[r] = "nil" /\ err'[r] # "nil"

\* the fields of the call q
CallState(q) ==
    <<pc[q], idx[q], target[q], calls[q], redirected[q], err[q], resp[q], status[q],
      writes[q], wHeader[q], out[q], ctx[q]>>

\* C16: the step in which a call fails writes that call's response and
\* nothing else: the host's state, the backends and the cursor stay as they
\* are, and so does every field of every other call.
C16_FailureIsolation ==
    [][ \A r \in Reqs : FailureStep(r) =>
           /\ UNCHANGED <<hostVars, lbVars>>
           /\ status'[r] \in {StatusInternalServerError, StatusBadGateway, StatusGatewayTimeout}
           /\ \A q \in Reqs \ {r} : CallState(q)' = CallState(q) ]_vars

C16_Witness ==
    /\ Running
    /\ listener = "listening"
    /\ err[1] = "Other" /\ pc[1] = "done" /\ status[1] = StatusBadGateway
    /\ pc[2] = "copy" /\ status[2] = Created201.StatusCode

\* the status ServeHTTP writes for a call that ended with error e and
\* response rs
Classified(e, rs) ==
    CASE e = "NewRequest" -> StatusInternalServerError
      [] e = "DeadlineExceeded" -> StatusGatewayTimeout
      [] e \in {"Canceled", "Other"} -> StatusBadGateway
      [] e = "nil" -> rs.StatusCode

\* C17 as stated: a finished call has written exactly one status, and that
\* status is 500 if and only if the outbound request could not be built,
\* 504 or 502 if client.Do returned an error, the upstream's own otherwise.
C17_SingleClassifiedOutcome ==
    \A r \in Reqs :
        /\ writes[r] <= 1
        /\ pc[r] = "done" =>
              /\ writes[r] = 1
              /\ status[r] = StatusInternalServerError <=> err[r] = "NewRequest"
              /\ err[r] \in {"DeadlineExceeded", "Canceled", "Other"} =>
                     status[r] \in {StatusGatewayTimeout, StatusBadGateway}
              /\ err[r] = "nil" => status[r] = resp[r].StatusCode

\* C17, amended: a finished call has written exactly one status: 500 when
\* the outbound request could not be built, 504 or 502 when client.Do
\* returned an error, and otherwise the status of the response client.Do
\* returned, which may itself be 500, 502 or 504; a call that has not
\* reached a write has written nothing.
C17_ClassifiedOutcome ==
    \A r \in Reqs :
        /\ writes[r] <= 1
        /\ pc[r] \in {"idle", "selected", "do"} => writes[r] = 0
        /\ pc[r] \in {"copy", "done"} =>
              /\ writes[r] = 1
              /\ status[r] = Classified(err[r], resp[r])
        /\ (pc[r] = "done" /\ status[r] = StatusInternalServerError) =>
              (err[r] = "NewRequest" \/ (err[r] = "nil" /\ resp[r] = Upstream500))

C17_Witness ==
    /\ pc[1] = "done" /\ err[1] = "nil" /\ status[1] = StatusInternalServerError
    /\ pc[2] = "done" /\ err[2] = "NewRequest" /\ status[2] = StatusInternalServerError
    /\ pc[3] = "done" /\ err[3] = "DeadlineExceeded"

\* C18: the context of a call is live exactly while the call is in
\* flight and is released when ServeHTTP returns, on every path (500, 502,
\* 504, relayed response); while client.Do waits, the deadline and the end
\* of the inbound context can each end it, and a call ended that way has
\* returned without a response.
C18_CancellationScope ==
    \A r \in Reqs :
        /\ ctx[r] = "none" <=> pc[r] = "idle"
        /\ ctx[r] = "active" <=> InFlight(r)
        /\ ctx[r] = "released" <=> pc[r] = "done"
        /\ pc[r] = "do" => ENABLED DoTimeout(r) /\ ENABLED DoCanceled(r)
        /\ err[r] \in {"DeadlineExceeded", "Canceled"} =>
              pc[r] = "done" /\ resp[r] = NoResp /\ out[r] = <<>>

C18_Witness ==
    /\ err[1] = "Canceled" /\ status[1] = StatusBadGateway /\ ctx[1] = "released"
    /\ err[2] = "NewRequest" /\ ctx[2] = "released"
    /\ err[3] = "nil" /\ pc[3] = "done" /\ status[3] = Created201.StatusCode /\ ctx[3] = "released"

\* C19: each call observes a cursor value above the one the call before it
\* observed, and is given the backend that follows, in the configured
\* order, the backend given to the call before it, also when the counter
\* passes its maximum and N does not divide 2^CounterBits.
C19_CursorMonotonicity ==
    \A r \in Reqs :
        (r + 1 \in Reqs /\ pc[r + 1] # "idle") =>
            /\ idx[r + 1] > idx[r]
            /\ target[r + 1] = BackendIndex(target[r], N)

\* C20: whatever the other calls are waiting for, the next request to
\* arrive can select its backend in one step, and a call in flight can
\* issue its upstream call, take any response and finish its copy.
C20_IndependentProgress ==
    \A r \in Reqs :
        /\ (lbState = "ok" /\ Accepting /\ pc[r] = "idle" /\ \A q \in Reqs : q < r => pc[q] # "idle")
              => ENABLED getNextBackend(r)
        /\ pc[r] = "selected" => ENABLED DoStart(r)
        /\ pc[r] = "do" => \A rs \in FinalResponses : ENABLED DoRespond(r, rs)
        /\ pc[r] = "copy" => ENABLED (CopyChunk(r) \/ CopyEOF(r))

C20_Witness ==
    /\ pc[1] = "do"
    /\ pc[2] = "done" /\ status[2] = Created201.StatusCode /\ out[2] = Created201.Body
    /\ pc[3] = "selected"

====
